---- MODULE Spec2Model ----
(***************************************************************************)
(* State-machine model of the video conversion service                     *)
(* (src/converter/convert.py) and of the status branch of the reporting    *)
(* endpoint (src/api/api_server.py).                                       *)
(*                                                                         *)
(* The converter is a single worker: main -> scan_and_convert ->           *)
(* convert_video.  Every update_status call changes the in-memory          *)
(* conversion_status and then rewrites the status file (open 'w' truncates *)
(* the file, json.dump writes, close flushes).  The reader of the status   *)
(* file is a separate process and interleaves with every step of a write.  *)
(*                                                                         *)
(* Numbers: durations are whole seconds, out_time_ms values are whole      *)
(* microseconds, speeds are whole multipliers; int() truncates towards     *)
(* zero and is computed on exact quotients.                                *)
(***************************************************************************)
EXTENDS Integers, Sequences, FiniteSets, TLC

(* ------------------------------ bounds -------------------------------- *)
\* the logical clock (file modification times) runs from 0 to MaxClock
MaxClock == 2
\* progress-channel lines read from one encoder process
MaxLines == 2

(* -------------------------- optional values --------------------------- *)
\* Python None / a present value
None == <<>>
Some(x) == <<x>>

(* ---------------------------- directory ------------------------------- *)
\* os.walk(INPUT_DIR) result, in walk (arbitrary) order.  key is the full
\* path as character codes (for sorted()), base the basename, stem the
\* path relative to INPUT_DIR without extension, suffix the extension.
DirListing ==
    << [key |-> <<2, 1>>, base |-> "b.MKV",  stem |-> "b", suffix |-> ".MKV"],
       [key |-> <<1, 3>>, base |-> "a.txt",  stem |-> "a", suffix |-> ".txt"],
       [key |-> <<1, 1>>, base |-> "a.avi",  stem |-> "a", suffix |-> ".avi"] >>

VIDEO_EXTENSIONS ==
    {".mp4", ".avi", ".mkv", ".mov", ".wmv", ".flv", ".webm", ".m4v", ".3gp", ".ogv"}

\* str.lower() on the suffixes that occur
Lower(s) == IF s = ".MKV" THEN ".mkv" ELSE s

\* tuple comparison of sorted(): lexicographic on character codes
RECURSIVE LexLess(_, _)
LexLess(a, b) ==
    IF a = <<>> THEN b # <<>>
    ELSE IF b = <<>> THEN FALSE
    ELSE IF Head(a) # Head(b) THEN Head(a) < Head(b)
    ELSE LexLess(Tail(a), Tail(b))

IsVideo(e) == Lower(e.suffix) \in VIDEO_EXTENSIONS
KeyLess(x, y) == LexLess(x.key, y.key)

\* the files in walk order, without the sort
get_video_files_unsorted == SelectSeq(DirListing, IsVideo)

\* get_video_files(INPUT_DIR): filter by extension, sort by full path
get_video_files == SortSeq(SelectSeq(DirListing, IsVideo), KeyLess)

NumVideos == Len(get_video_files)
Stems == {get_video_files[i].stem : i \in 1..NumVideos}

\* get_output_path: same relative path, extension replaced by .mp4; the
\* output file is identified by the stem
get_output_path(e) == e.stem

(* --------------------------- arithmetic ------------------------------- *)
Min(a, b) == IF a <= b THEN a ELSE b
Max(a, b) == IF a >= b THEN a ELSE b
\* Python int(x) of the quotient a / b (b > 0): truncation towards zero
TruncDiv(a, b) == IF a >= 0 THEN a \div b ELSE -((-a) \div b)

(* ------------------------- status document ---------------------------- *)
\* key order of the conversion_status dict (json.dump keeps it)
FieldOrder == <<"active", "current_file", "progress", "speed", "eta", "status", "method">>
OptionalFields == {"current_file", "speed", "eta", "method"}

\* None written as the string "None" instead of null
EncodeValueStrNone(k, v) ==
    IF k = "active" THEN (IF v THEN <<"true">> ELSE <<"false">>)
    ELSE IF k \in OptionalFields
         THEN (IF v = None THEN <<"str", "None">>
               ELSE IF k \in {"current_file", "method"} THEN <<"str", v[1]>>
               ELSE <<"num", v[1]>>)
    ELSE IF k = "status" THEN <<"str", v>>
    ELSE <<"num", v>>

\* json.dump of one value: None -> null, True/False -> true/false,
\* strings quoted, numbers as numerals
EncodeValue(k, v) ==
    IF k = "active" THEN (IF v THEN <<"true">> ELSE <<"false">>)
    ELSE IF k \in OptionalFields
         THEN (IF v = None THEN <<"null">>
               ELSE IF k \in {"current_file", "method"} THEN <<"str", v[1]>>
               ELSE <<"num", v[1]>>)
    ELSE IF k = "status" THEN <<"str", v>>
    ELSE <<"num", v>>

\* json.load of one value
DecodeValue(k, t) ==
    IF k = "active" THEN t[1] = "true"
    ELSE IF k \in OptionalFields
         THEN (IF t[1] = "null" THEN None ELSE Some(t[2]))
    ELSE t[2]

\* json.dump(conversion_status): the text as a sequence of tokens
Serialize(st) ==
    <<"{">> \o [i \in 1..Len(FieldOrder) |->
                  <<FieldOrder[i], EncodeValue(FieldOrder[i], st[FieldOrder[i]])>>]
            \o <<"}">>

DocLen == Len(FieldOrder) + 2

\* json.load succeeds only on a complete document
ParseOk(data) == Len(data) = DocLen
Parse(data) ==
    [k \in {FieldOrder[i] : i \in 1..Len(FieldOrder)} |->
        DecodeValue(k, data[(CHOOSE i \in 1..Len(FieldOrder) : FieldOrder[i] = k) + 1][2])]

\* dict.update(kwargs)
Update(st, kw) == [k \in DOMAIN st |-> IF k \in DOMAIN kw THEN kw[k] ELSE st[k]]

\* the module-level conversion_status
InitialStatus ==
    [active |-> FALSE, current_file |-> None, progress |-> 0, speed |-> None,
     eta |-> None, status |-> "idle", method |-> None]

\* a default that reports an error
DefaultResponseError ==
    [active |-> FALSE, current_file |-> None, progress |-> 0, speed |-> None,
     eta |-> None, status |-> "error"]

\* the status the endpoint answers with when the file is absent or unparseable
DefaultResponse ==
    [active |-> FALSE, current_file |-> None, progress |-> 0, speed |-> None,
     eta |-> None, status |-> "idle"]

\* _handle_request, /status branch: the response body for a file state
ReadStatus(file) ==
    IF file.exists /\ ParseOk(file.data) THEN Parse(file.data) ELSE DefaultResponse

(* ------------------------------ inputs -------------------------------- *)
\* results of the duration probe when it succeeds (seconds)
Durations == {2}
\* values of out_time_ms= lines (microseconds)
OutTimeValues == {-3000000, 1355000, 3000000}
\* values of speed= lines
SpeedValues == {0, 2}
\* /dev/dri as the probe finds it: the directory missing, or the set of
\* renderD* nodes in it
DriStates ==
    {[dir |-> FALSE, nodes |-> {}]}
    \cup {[dir |-> TRUE, nodes |-> n] : n \in SUBSET {"renderD128", "renderD129"}}
NoDri == [dir |-> FALSE, nodes |-> {}]
\* ffmpeg -encoders: lists h264_qsv, does not list it, or the call fails
CodecListings == {"qsv", "noqsv", "fails"}

(* ------------------------------- state -------------------------------- *)
VARIABLES
    pc,                 \* position of the worker
    idx,                \* index into video_files of the scan pass
    conversion_status,  \* the in-memory status dict
    save,               \* position inside save_status
    statusFile,         \* STATUS_FILE: [exists, data]
    response,           \* body of the /status request being answered
    clock,              \* current time
    inMtime,            \* modification time of each input file
    out,                \* each output file: [exists, mtime, complete]
    fresh,              \* outputs of completed runs, untouched since (with their inputs)
    duration,           \* convert_video local
    out_time,           \* convert_video local (microseconds)
    dri,                \* /dev/dri as the capability probe found it
    codecs,             \* result of ffmpeg -encoders, "notrun" when skipped
    cmd,                \* encoder command built: "none", "qsv", "software"
    lines               \* progress lines read from the running encoder

vars == <<pc, idx, conversion_status, save, statusFile, response, clock, inMtime,
          out, fresh, duration, out_time, dri, codecs, cmd, lines>>

fsVars == <<clock, inMtime, out, fresh>>
localVars == <<duration, out_time, dri, codecs, cmd, lines>>

CurrentFile == get_video_files[idx]

(* --------------------------- Status Publisher ------------------------- *)
\* update_status(**kwargs): update the dict under the lock, then save_status
update_status(kw) ==
    /\ conversion_status' = Update(conversion_status, kw)
    /\ save' = "pending"

\* the worker runs its next statement only after save_status has returned;
\* a /status request is answered between two steps of the others
Quiet == response = None
Ready == save = "none" /\ Quiet

\* save_status: open(STATUS_FILE, 'w') truncates the file
SaveOpen ==
    /\ save = "pending" /\ Quiet
    /\ statusFile' = [exists |-> TRUE, data |-> <<>>]
    /\ save' = "open"
    /\ UNCHANGED <<pc, idx, conversion_status, response, fsVars, localVars>>

\* open raises and nothing catches it
SaveOpenFailRaises ==
    /\ save = "pending" /\ Quiet
    /\ save' = "none"
    /\ pc' = "crashed"
    /\ UNCHANGED <<idx, conversion_status, statusFile, response, fsVars, localVars>>

\* save_status: open raises; the exception is printed and swallowed
SaveOpenFail ==
    /\ save = "pending" /\ Quiet
    /\ save' = "none"
    /\ UNCHANGED <<pc, idx, conversion_status, statusFile, response, fsVars, localVars>>

\* save_status: part of the text has reached the file
SaveWrite ==
    /\ save = "open" /\ Quiet
    /\ \E k \in 1..(DocLen - 1) :
          statusFile' = [exists |-> TRUE,
                         data |-> SubSeq(Serialize(conversion_status), 1, k)]
    /\ save' = "partial"
    /\ UNCHANGED <<pc, idx, conversion_status, response, fsVars, localVars>>

\* save_status: the with-block closes the file, everything is flushed
SaveClose ==
    /\ save \in {"open", "partial"} /\ Quiet
    /\ statusFile' = [exists |-> TRUE, data |-> Serialize(conversion_status)]
    /\ save' = "none"
    /\ UNCHANGED <<pc, idx, conversion_status, response, fsVars, localVars>>

\* save_status from open to close as one step, as the worker alone sees it
SaveStatus ==
    /\ save = "pending" /\ Quiet
    /\ statusFile' = [exists |-> TRUE, data |-> Serialize(conversion_status)]
    /\ save' = "none"
    /\ UNCHANGED <<pc, idx, conversion_status, response, fsVars, localVars>>

(* ----------------------------- endpoint ------------------------------- *)
\* GET /status: the handler reads STATUS_FILE and builds the body
Read ==
    /\ Quiet
    /\ response' = Some(ReadStatus(statusFile))
    /\ UNCHANGED <<pc, idx, conversion_status, save, statusFile, fsVars, localVars>>

\* the body is sent, the request is over
Respond ==
    /\ response # None
    /\ response' = None
    /\ UNCHANGED <<pc, idx, conversion_status, save, statusFile, fsVars, localVars>>

(* --------------------------- Catalog Scanner -------------------------- *)
\* the comparison with >= in place of >
needs_conversion_ge(e, statOk) ==
    IF ~out[get_output_path(e)].exists THEN "true"
    ELSE IF ~statOk THEN "raise"
    ELSE IF inMtime[e.stem] >= out[get_output_path(e)].mtime THEN "true"
    ELSE "false"

\* needs_conversion(input_path, output_path): "true", "false", or "raise"
\* when os.path.getmtime(input_path) raises OSError (statOk false)
needs_conversion(e, statOk) ==
    IF ~out[get_output_path(e)].exists THEN "true"
    ELSE IF ~statOk THEN "raise"
    ELSE IF inMtime[e.stem] > out[get_output_path(e)].mtime THEN "true"
    ELSE "false"

(* ------------------------- Capability Prober -------------------------- *)
\* os.path.exists('/dev/dri/renderD128')
HasRenderD128(d) == d.dir /\ "renderD128" \in d.nodes

\* lines 121-136
device_ok(d) ==
    IF HasRenderD128(d) THEN TRUE
    ELSE IF d.dir THEN d.nodes # {}
    ELSE FALSE

\* hardware selected on the device check alone
use_qsv_device_only(d, listing) == device_ok(d)

\* lines 138-154: the codec check runs only when device_ok; a failing or
\* timed-out listing leaves use_qsv False
use_qsv(d, listing) == device_ok(d) /\ listing = "qsv"

\* lines 163-203: the hardware command binds /dev/dri/renderD128
BuildCmd(d, listing) == IF use_qsv(d, listing) THEN "qsv" ELSE "software"

(* --------------------------- status updates --------------------------- *)
\* main, lines 317-325
MainStatus ==
    [active |-> FALSE, current_file |-> None, progress |-> 0, speed |-> None,
     eta |-> None, status |-> "idle", method |-> None]

\* a start that does not clear speed and eta
StartingStatusNoClear(filename) ==
    [active |-> TRUE, current_file |-> Some(filename), progress |-> 0,
     status |-> "starting"]

\* convert_video, lines 96-103
StartingStatus(filename) ==
    [active |-> TRUE, current_file |-> Some(filename), progress |-> 0,
     speed |-> None, eta |-> None, status |-> "starting"]

\* a completed update that keeps the file name
CompletedStatusKeepsFile ==
    [active |-> FALSE, progress |-> 100, status |-> "completed", method |-> None]

\* lines 245-251
CompletedStatus ==
    [active |-> FALSE, current_file |-> None, progress |-> 100,
     status |-> "completed", method |-> None]

\* a completed run that forgets to go back to idle
IdleAfterCompletedNoReset ==
    [active |-> FALSE, current_file |-> None, progress |-> 0, method |-> None]

\* lines 253-259
IdleAfterCompleted ==
    [active |-> FALSE, current_file |-> None, progress |-> 0,
     status |-> "idle", method |-> None]

\* an error update that leaves active set
ErrorStatusKeepsActive ==
    [current_file |-> None, progress |-> 0, status |-> "error", method |-> None]

\* lines 266-272 and 278-284
ErrorStatus ==
    [active |-> FALSE, current_file |-> None, progress |-> 0,
     status |-> "error", method |-> None]

\* the final update of a failed run without the status
IdleAfterErrorNoStatus == [method |-> None]

\* lines 274 and 286
IdleAfterError == [status |-> "idle", method |-> None]

\* line 223: progress = min(100, int((out_time / duration) * 100)),
\* out_time = out_time_ms / 1000000.0
ProgressOf(out_time_ms, dur) == Min(100, TruncDiv(out_time_ms * 100, dur * 1000000))

\* lines 230-231: int(max(0, (duration - out_time) / speed)), speed > 0
EtaOf(dur, out_time_ms, speed) ==
    TruncDiv(Max(0, dur * 1000000 - out_time_ms), speed * 1000000)

\* `if duration and duration > 0`
DurationKnown == duration # None /\ duration[1] > 0

ResetLocals ==
    /\ duration' = None
    /\ out_time' = 0
    /\ lines' = 0

(* ------------------------------ Scan Loop ----------------------------- *)
\* main: the initial update_status, then the first scan_and_convert
MainStart ==
    /\ pc = "main" /\ Ready
    /\ update_status(MainStatus)
    /\ pc' = "scan"
    /\ idx' = 1
    /\ UNCHANGED <<statusFile, response, fsVars, localVars>>

\* scan_and_convert: one iteration of the for loop up to the first
\* update_status of convert_video
ScanFile ==
    /\ pc = "scan" /\ Ready /\ idx <= NumVideos
    /\ \E statOk \in BOOLEAN :
         LET r == needs_conversion(CurrentFile, statOk) IN
         \/ /\ r = "raise"          \* OSError leaves scan_and_convert and main
            /\ pc' = "crashed"
            /\ UNCHANGED <<idx, conversion_status, save>>
         \/ /\ r = "true"           \* convert_video(input_path, output_path)
            /\ update_status(StartingStatus(CurrentFile.base))
            /\ pc' = "select"
            /\ UNCHANGED idx
         \/ /\ r = "false"          \* skip
            /\ idx' = idx + 1
            /\ UNCHANGED <<pc, conversion_status, save>>
    /\ UNCHANGED <<statusFile, response, fsVars, localVars>>

\* scan_and_convert returns; main sleeps SCAN_INTERVAL
ScanEnd ==
    /\ pc = "scan" /\ Ready /\ idx > NumVideos
    /\ pc' = "sleep"
    /\ UNCHANGED <<idx, conversion_status, save, statusFile, response, fsVars, localVars>>

\* the sleep is over: next scan_and_convert
SleepDone ==
    /\ pc = "sleep" /\ Ready
    /\ pc' = "scan"
    /\ idx' = 1
    /\ UNCHANGED <<conversion_status, save, statusFile, response, fsVars, localVars>>

(* --------------------------- Transcode Runner ------------------------- *)
\* lines 105-203: duration probe, capability probe, command, method
SelectEncoder ==
    /\ pc = "select" /\ Ready
    /\ \E dur \in {None} \cup {Some(d) : d \in Durations},
          d \in DriStates, listing \in CodecListings :
          /\ duration' = dur
          /\ dri' = d
          /\ codecs' = IF device_ok(d) THEN listing ELSE "notrun"
          /\ cmd' = BuildCmd(d, listing)
          /\ update_status([method |-> Some(BuildCmd(d, listing))])
    /\ pc' = "launch"
    /\ UNCHANGED <<idx, statusFile, response, fsVars, out_time, lines>>

\* lines 206-212: Popen(cmd) succeeds
LaunchOk ==
    /\ pc = "launch" /\ Ready
    /\ update_status([status |-> "converting"])
    /\ out_time' = 0
    /\ dri' = NoDri
    /\ codecs' = "none"
    /\ cmd' = "none"
    /\ pc' = "reading"
    /\ UNCHANGED <<idx, statusFile, response, fsVars, duration, lines>>

\* line 206: Popen raises (no such binary); handler of lines 276-284
LaunchFail ==
    /\ pc = "launch" /\ Ready
    /\ update_status(ErrorStatus)
    /\ dri' = NoDri
    /\ codecs' = "none"
    /\ cmd' = "none"
    /\ pc' = "error_hold"
    /\ UNCHANGED <<idx, statusFile, response, fsVars, duration, out_time, lines>>

\* lines 219-224: an out_time_ms= line
ProgressLine ==
    /\ pc = "reading" /\ Ready /\ lines < MaxLines
    /\ \E v \in OutTimeValues :
          /\ out_time' = v
          /\ IF DurationKnown
             THEN update_status([progress |-> ProgressOf(v, duration[1])])
             ELSE UNCHANGED <<conversion_status, save>>
    /\ lines' = lines + 1
    /\ UNCHANGED <<pc, idx, statusFile, response, fsVars, duration, dri, codecs, cmd>>

\* lines 225-229: a speed= line
SpeedLine ==
    /\ pc = "reading" /\ Ready /\ lines < MaxLines
    /\ \E sp \in SpeedValues :
          /\ update_status([speed |-> Some(sp)])
          /\ pc' = IF duration # None /\ duration[1] # 0 /\ sp > 0 /\ out_time > 0
                   THEN "eta" ELSE "reading"
    /\ lines' = lines + 1
    /\ UNCHANGED <<idx, statusFile, response, fsVars, duration, out_time, dri, codecs, cmd>>

\* lines 230-231
EtaUpdate ==
    /\ pc = "eta" /\ Ready
    /\ update_status([eta |-> Some(EtaOf(duration[1], out_time, conversion_status.speed[1]))])
    /\ pc' = "reading"
    /\ UNCHANGED <<idx, statusFile, response, fsVars, localVars>>

\* lines 236-251: the encoder exits 0 and has written output_path
ExitZero ==
    /\ pc = "reading" /\ Ready
    /\ out' = [out EXCEPT ![get_output_path(CurrentFile)] =
                  [exists |-> TRUE, mtime |-> clock, complete |-> TRUE]]
    /\ fresh' = fresh \cup {CurrentFile.stem}
    /\ update_status(CompletedStatus)
    /\ pc' = "completed_hold"
    /\ UNCHANGED <<idx, statusFile, response, clock, inMtime, localVars>>

\* lines 236-242, 261-272: the encoder exits non-zero; it was started with
\* -y and output_path, and what it wrote (if anything) is left in place
ExitNonZero ==
    /\ pc = "reading" /\ Ready
    /\ \E wrote \in BOOLEAN :
          /\ out' = IF wrote
                    THEN [out EXCEPT ![get_output_path(CurrentFile)] =
                             [exists |-> TRUE, mtime |-> clock, complete |-> FALSE]]
                    ELSE out
          /\ fresh' = IF wrote THEN fresh \ {CurrentFile.stem} ELSE fresh
    /\ update_status(ErrorStatus)
    /\ pc' = "error_hold"
    /\ UNCHANGED <<idx, statusFile, response, clock, inMtime, localVars>>

\* lines 252-260: sleep(1), idle, return True
CompletedHoldDone ==
    /\ pc = "completed_hold" /\ Ready
    /\ update_status(IdleAfterCompleted)
    /\ pc' = "scan"
    /\ idx' = idx + 1
    /\ ResetLocals
    /\ UNCHANGED <<statusFile, response, fsVars, dri, codecs, cmd>>

\* the handler re-raises instead of returning False
ErrorHoldDoneRaises ==
    /\ pc = "error_hold" /\ Ready
    /\ update_status(IdleAfterError)
    /\ pc' = "crashed"
    /\ ResetLocals
    /\ UNCHANGED <<idx, statusFile, response, fsVars, dri, codecs, cmd>>

\* lines 273-275 and 285-287: sleep(2), idle, return False
ErrorHoldDone ==
    /\ pc = "error_hold" /\ Ready
    /\ update_status(IdleAfterError)
    /\ pc' = "scan"
    /\ idx' = idx + 1
    /\ ResetLocals
    /\ UNCHANGED <<statusFile, response, fsVars, dri, codecs, cmd>>

(* ---------------------------- environment ----------------------------- *)
\* time passes
Tick ==
    /\ Quiet /\ clock < MaxClock
    /\ clock' = clock + 1
    /\ UNCHANGED <<pc, idx, conversion_status, save, statusFile, response,
                   inMtime, out, fresh, localVars>>

\* an input file is modified
Touch ==
    /\ Quiet
    /\ \E s \in Stems :
          /\ inMtime[s] # clock
          /\ inMtime' = [inMtime EXCEPT ![s] = clock]
          /\ fresh' = fresh \ {s}
    /\ UNCHANGED <<pc, idx, conversion_status, save, statusFile, response,
                   clock, out, localVars>>

(* --------------------------- specifications --------------------------- *)
NoOutput == [exists |-> FALSE, mtime |-> 0, complete |-> FALSE]

InitWorker ==
    /\ pc = "main"
    /\ idx = 1
    /\ conversion_status = InitialStatus
    /\ save = "none"
    /\ statusFile = [exists |-> FALSE, data |-> <<>>]
    /\ response = None
    /\ duration = None
    /\ out_time = 0
    /\ dri = NoDri
    /\ codecs = "none"
    /\ cmd = "none"
    /\ lines = 0

\* the worker, the file system and the clock
Init ==
    /\ InitWorker
    /\ clock = 1
    /\ inMtime \in [Stems -> 0..1]
    /\ out \in [Stems -> {NoOutput} \cup
                  {[exists |-> TRUE, mtime |-> t, complete |-> TRUE] : t \in 0..1}]
    /\ fresh = {}

Worker ==
    \/ MainStart \/ ScanFile \/ ScanEnd \/ SleepDone
    \/ SelectEncoder \/ LaunchOk \/ LaunchFail
    \/ ProgressLine \/ SpeedLine \/ EtaUpdate
    \/ ExitZero \/ ExitNonZero \/ CompletedHoldDone \/ ErrorHoldDone

Next == Worker \/ SaveStatus \/ Tick \/ Touch

Spec == Init /\ [][Next]_vars

\* a fresh output tree: nothing has been converted yet
InitFresh ==
    /\ InitWorker
    /\ clock = 1
    /\ inMtime = [s \in Stems |-> 1]
    /\ out = [s \in Stems |-> NoOutput]
    /\ fresh = {}

\* the worker writing the status file and the endpoint reading it
NextRW ==
    \/ Worker
    \/ SaveOpen \/ SaveOpenFail \/ SaveWrite \/ SaveClose
    \/ Read \/ Respond

SpecRW == InitFresh /\ [][NextRW]_vars

\* the worker alone, under the scheduling the code relies on: the interpreter
\* keeps running, sleeps end, save_status returns and the encoder terminates
NextWorker == Worker \/ SaveStatus

SpecFair == InitFresh /\ [][NextWorker]_vars /\ WF_vars(NextWorker)

(* ------------------------------ claims -------------------------------- *)
status == conversion_status.status
Running == {"starting", "converting"}
SavedDoc == Parse(statusFile.data)
Saved == statusFile.exists /\ ParseOk(statusFile.data)

\* C1: in every published snapshot (the in-memory status and the saved
\* document), active is true exactly when status is starting or converting.
C1_ActiveIffRunning ==
    /\ conversion_status.active <=> (status \in Running)
    /\ Saved => (SavedDoc.active <=> (SavedDoc.status \in Running))

\* C1 witness: a failed run has published error with active false while the
\* saved document still holds the converting snapshot with active true.
C1_Witness ==
    /\ pc = "error_hold" /\ status = "error" /\ ~conversion_status.active
    /\ Saved /\ SavedDoc.status = "converting" /\ SavedDoc.active

\* the transitions of the claim as written
ClaimedTransitions ==
    { <<"idle", "starting">>, <<"starting", "converting">>,
      <<"converting", "completed">>, <<"converting", "error">>,
      <<"completed", "idle">>, <<"error", "idle">> }

\* C2 as written: every change of status is one of the claimed transitions,
\* so error is entered from converting only.
C2_Original ==
    [][status' # status => <<status, status'>> \in ClaimedTransitions]_vars

\* C2 amended: every change of status is one of the claimed transitions or
\* starting -> error (the encoder could not be launched).
C2_Transitions ==
    [][status' # status =>
          <<status, status'>> \in ClaimedTransitions \cup {<<"starting", "error">>}]_vars

\* C2 witness: error has been published while the saved document still shows
\* the starting snapshot, i.e. the launch failed.
C2_Witness ==
    /\ status = "error" /\ save = "pending"
    /\ Saved /\ SavedDoc.status = "starting"

\* C3: every output file present was written by a run that completed; a
\* failed run leaves nothing that a later scan takes for a valid result.
C3_OutputsComplete == \A s \in Stems : out[s].exists => out[s].complete

\* C4: when /dev/dri/renderD128, the device the hardware command binds, is
\* absent, the command selected is the software one.
C4_AbsentDeviceSoftware ==
    (pc = "launch" /\ ~HasRenderD128(dri)) => cmd = "software"

\* C5: an unreadable modification time never aborts the pass or the process.
C5_NeverAborts == pc # "crashed"

\* C6: while one conversion is in progress the published progress never
\* decreases.
C6_ProgressMonotone ==
    [][(status \in Running /\ status' \in Running) =>
          conversion_status'.progress >= conversion_status.progress]_vars

\* C7: the published progress is always within 0..100.
C7_ProgressInRange ==
    conversion_status.progress >= 0 /\ conversion_status.progress <= 100

\* C8: when convert_video returns the status is idle with active false, and
\* a conversion that has published starting eventually publishes idle.
C8_ReturnsIdle ==
    /\ [][(pc \in {"completed_hold", "error_hold"} /\ pc' = "scan") =>
             (status' = "idle" /\ ~conversion_status'.active)]_vars
    /\ (status = "starting") ~> (status = "idle")

\* C8 witness: convert_video has returned for the first file after a failed
\* run that left its output behind.
C8_Witness ==
    /\ pc = "scan" /\ idx = 2 /\ status = "idle" /\ ~conversion_status.active
    /\ out[get_video_files[1].stem].exists
    /\ ~out[get_video_files[1].stem].complete

\* C9: a /status request never finds the status file empty or partly
\* written: when the file exists the body is the complete document in it.
C9_ReaderSeesWhole ==
    (response # None /\ statusFile.exists) =>
        (ParseOk(statusFile.data) /\ response[1] = SavedDoc)

\* C10: when needs_conversion returns, it returns true exactly when the
\* output does not exist or the input is strictly newer than the output.
C10_NeedsConversion ==
    [][(pc = "scan" /\ idx <= NumVideos /\ (pc' = "select" \/ idx' = idx + 1)) =>
          ((pc' = "select") <=>
             (\/ ~out[get_output_path(CurrentFile)].exists
              \/ inMtime[CurrentFile.stem] > out[get_output_path(CurrentFile)].mtime))]_vars

\* C10 witness: a conversion was just selected for an input newer than its
\* existing output.
C10_Witness ==
    /\ pc = "select" /\ save = "pending"
    /\ out[get_output_path(CurrentFile)].exists
    /\ inMtime[CurrentFile.stem] > out[get_output_path(CurrentFile)].mtime

Files == get_video_files
FirstStem == Files[1].stem
SecondStem == Files[2].stem

\* C11: a file whose output was written by a completed run, with neither
\* the input nor the output modified since, is never selected for
\* conversion by a scan pass.
C11_UpToDateSkipped ==
    [][(pc = "scan" /\ idx <= NumVideos /\ CurrentFile.stem \in fresh) =>
          pc' # "select"]_vars

\* C11 witness: a later pass has gone past the first file, converted at an
\* earlier time than the second, without converting it again.
C11_Witness ==
    /\ pc = "scan" /\ idx = 2 /\ fresh = Stems
    /\ out[FirstStem].mtime < out[SecondStem].mtime

\* C12: after a failed conversion (non-zero exit or launch failure)
\* convert_video returns to the loop, which goes on with the next file of
\* the pass; the failure itself never ends the process.
C12_FailureIsLocal ==
    /\ [][(pc = "error_hold" /\ pc' # pc) => (pc' = "scan" /\ idx' = idx + 1)]_vars
    /\ [][(pc \in {"launch", "reading", "eta"}) => pc' # "crashed"]_vars
    /\ \A i \in 1..NumVideos :
          (pc = "error_hold" /\ idx = i) ~> (pc = "scan" /\ idx = i + 1)

\* C12 witness: the first file's conversion failed and the second file's
\* conversion has been started in the same pass.
C12_Witness ==
    /\ pc = "select" /\ idx = 2 /\ save = "pending"
    /\ Saved /\ SavedDoc.status = "idle"
    /\ ~out[FirstStem].exists

\* C13: the files of a pass are in lexicographic order of their paths, the
\* loop index only moves forward within a pass, and a conversion is started
\* only when no conversion is in progress.
C13_OneAtATimeInOrder ==
    /\ [][(pc = "scan" /\ pc' = "select") =>
             /\ status \notin Running
             /\ \A j \in 1..(idx - 1) : LexLess(Files[j].key, CurrentFile.key)]_vars
    /\ [][idx' # idx => (idx' = idx + 1 \/ (pc = "sleep" /\ idx' = 1)
                          \/ (pc = "main" /\ idx' = 1))]_vars
    /\ [](status \in Running =>
             (pc \in {"select", "launch", "reading", "eta"}
              /\ conversion_status.current_file = Some(CurrentFile.base)))

\* C13 witness: the second file is being converted after the first file's
\* conversion finished in the same pass.
C13_Witness ==
    /\ pc = "reading" /\ idx = 2 /\ status = "converting"
    /\ FirstStem \in fresh /\ out[FirstStem].mtime = clock

\* C14: the probe selects the hardware encoder exactly when /dev/dri holds
\* at least one renderD* node and the codec listing contains h264_qsv; every
\* other probe outcome (no directory, no node, listing without the codec,
\* listing failed) selects software, and the codec listing is run only when
\* a device was found.
C14_ProbeSelectsHardware ==
    pc = "launch" =>
        /\ cmd \in {"qsv", "software"}
        /\ (cmd = "qsv") <=> (dri.dir /\ dri.nodes # {} /\ codecs = "qsv")
        /\ (codecs = "notrun") <=> ~(dri.dir /\ dri.nodes # {})
        /\ conversion_status.method = Some(cmd)

\* C14 witness: a device node is present, the codec listing failed, and the
\* software command was built.
C14_Witness ==
    /\ pc = "launch" /\ dri.nodes # {} /\ codecs = "fails" /\ cmd = "software"

\* C15 as written: with the duration unknown the published progress is 0
\* and eta is absent during the whole run, the completed snapshot included.
C15_Original ==
    (duration = None /\ pc \in {"launch", "reading", "eta", "completed_hold"}) =>
        (conversion_status.progress = 0 /\ conversion_status.eta = None)

\* C15 amended: with the duration unknown the published progress is 0 and
\* eta is absent while the status is starting or converting, and on exit 0
\* the run publishes completed with progress 100 and eta still absent.
C15_UnknownDuration ==
    /\ (duration = None /\ pc \in {"launch", "reading", "eta"}) =>
          (conversion_status.progress = 0 /\ conversion_status.eta = None)
    /\ (duration = None /\ pc = "completed_hold") =>
          (status = "completed" /\ conversion_status.progress = 100
           /\ conversion_status.eta = None)

\* C15 witness: a run with unknown duration has read out_time_ms and speed
\* lines and completed.
C15_Witness ==
    /\ duration = None /\ pc = "completed_hold" /\ status = "completed"
    /\ out_time > 0 /\ conversion_status.speed = Some(2) /\ idx = 2

\* C16: a /status request that finds the status file absent or unparseable
\* answers the idle default.
C16_TornReadsIdle ==
    (response # None /\ ~(statusFile.exists /\ ParseOk(statusFile.data))) =>
        /\ response[1].active = FALSE
        /\ response[1].status = "idle"
        /\ response[1].progress = 0
        /\ response[1].current_file = None

\* C16 witness: a request is answered while the file is partly written
\* during a conversion.
C16_Witness ==
    /\ response # None /\ statusFile.exists /\ ~ParseOk(statusFile.data)
    /\ statusFile.data # <<>> /\ status = "converting"

\* C17: every change of the status is followed by a save, and when a save
\* succeeds the document read back equals the in-memory status field for
\* field.
C17_RoundTrip ==
    /\ [][conversion_status' # conversion_status => save' = "pending"]_vars
    /\ [][(save \in {"open", "partial"} /\ save' = "none") =>
             ReadStatus(statusFile') = conversion_status']_vars

\* C17 witness: with no write in flight, a request is answered with the
\* status published during a conversion, speed and eta included.
C17_Witness ==
    /\ save = "none" /\ response # None /\ response[1] = conversion_status
    /\ status = "converting"
    /\ conversion_status.speed # None /\ conversion_status.eta # None

\* C18: a failed write of the status file leaves the worker where a
\* successful one would: position, in-memory status, locals and outputs are
\* untouched by the failure, and the position still determines the status
\* (converting while reading, completed or error by the exit code).
C18_WriteFailureHarmless ==
    /\ [][(save = "pending" /\ save' = "none") =>
             UNCHANGED <<pc, idx, conversion_status, out, localVars>>]_vars
    /\ [](pc \in {"reading", "eta"} => status = "converting")
    /\ [](pc = "completed_hold" =>
             (status = "completed" /\ out[get_output_path(CurrentFile)].complete))
    /\ [](pc = "error_hold" => status = "error")
    /\ [](pc = "sleep" => status = "idle")

\* C18 witness: no write has ever succeeded, and both files were handled,
\* the first converted successfully, and the loop reached its sleep.
C18_Witness ==
    /\ ~statusFile.exists /\ pc = "sleep" /\ status = "idle"
    /\ out[FirstStem].complete /\ ~out[SecondStem].exists

\* Python round(): to the nearest integer, ties to even (b > 0)
RoundDiv(a, b) ==
    LET q == (2 * a + b) \div (2 * b) IN
    IF (2 * a + b) % (2 * b) = 0 /\ q % 2 = 1 THEN q - 1 ELSE q

ClaimedProgress(out_time_ms, dur) ==
    Max(0, Min(100, RoundDiv(out_time_ms * 100, dur * 1000000)))

\* C19: with a known positive duration the published progress is
\* clamp(0, 100, round(100 * elapsed / duration)) of the last out_time_ms.
C19_ProgressFormula ==
    (pc \in {"reading", "eta"} /\ DurationKnown) =>
        conversion_status.progress = ClaimedProgress(out_time, duration[1])

\* C20: in every published snapshot (in memory and saved) current_file is
\* set exactly when active is true, and method is set only when active is
\* true.
C20_FileAndMethodWhileActive ==
    /\ (conversion_status.current_file # None) <=> conversion_status.active
    /\ (conversion_status.method # None) => conversion_status.active
    /\ Saved => /\ (SavedDoc.current_file # None) <=> SavedDoc.active
                /\ (SavedDoc.method # None) => SavedDoc.active

\* C20 witness: completed has been published without file and method while
\* the saved document still holds the converting snapshot with both.
C20_Witness ==
    /\ status = "completed" /\ conversion_status.current_file = None
    /\ conversion_status.method = None
    /\ Saved /\ SavedDoc.current_file # None /\ SavedDoc.method # None

====
